---- MODULE Spec2Model ----
(***************************************************************************)
(* logshare-cli (cmd/logshare-cli/main.go): one invocation of the command   *)
(* line client, in single-shot mode (run) or loop mode (runLoop).           *)
(*                                                                          *)
(* The process is sequential.  Every call into a library (the zone lookup,  *)
(* Google Cloud Storage, the logshare client) is an environment response    *)
(* drawn from a small set.  Strings are TLA+ strings; an error text, which  *)
(* the code searches with strings.Contains, is a tuple of one-character     *)
(* strings.  The sampling rate is a float64: a number kept in hundredths    *)
(* (the literals 0.1 and 0.9 of Validate are 10 and 90), or NaN, which      *)
(* strconv.ParseFloat reads from the command line ("--sample NaN") and      *)
(* for which every ordered comparison is false and != is true.              *)
(***************************************************************************)
EXTENDS Integers, Sequences, FiniteSets, TLC

VARIABLES
    mode,      \* "run" (app.Action) or "loop" (the loop subcommand)
    flags,     \* the parsed command line (cli.Context)
    now,       \* time.Now().Unix() at the moment the object name is derived
    conf,      \* the config struct
    validateErr, \* what conf.Validate() returned (nil before it is called)
    pc,        \* position of the process
    client,    \* the *logshare.Client returned by setup (built = FALSE: nil)
    closers,   \* the []io.Closer returned by setup: indices into writers
    writers,   \* every *gcs.Writer opened so far
    outputWriter, \* the local outputWriter of setup: an index into writers, 0 = nil
    err,       \* the error value the current function holds / returns
    resp,      \* what the zone lookup, gcs.NewClient and Bucket.Create returned
    calls,     \* number of calls made to each external capability
    lastWork,  \* what the latest ClientWork call did
    trace,     \* the latest observable effects (fetches, log lines, sleeps, closes)
    exitCode   \* exit status of the process, NotExited while it runs

vars == <<mode, flags, now, conf, validateErr, pc, client, closers, writers, outputWriter,
          err, resp, calls, lastWork, trace, exitCode>>

----------------------------------------------------------------------------
(* Bounds *)

\* counters of external calls saturate at MaxCalls
MaxCalls == 3
\* the trace keeps the latest MaxTrace effects
MaxTrace == 6

----------------------------------------------------------------------------
(* Values *)

NotExited == -1

Min(a, b) == IF a < b THEN a ELSE b

\* error values: the nil error, or an error with its text
NilErr == [nil |-> TRUE, text |-> <<>>]
Err(text) == [nil |-> FALSE, text |-> text]

\* errors.New(msg) where errors.Wrap was meant: the cause is dropped
WrapDropCause(cause, msg) == Err(<<msg>>)

\* errors.Wrap(cause, msg): text is msg + ": " + cause.Error()
Wrap(cause, msg) == Err(<<msg, ": ">> \o cause.text)

\* strings.Contains(s, sub)
Contains(s, sub) ==
    \E i \in 1..(Len(s) - Len(sub) + 1) : SubSeq(s, i, i + Len(sub) - 1) = sub

\* the literal "409" searched for by setupGoogleStr
Lit409 == <<"4", "0", "9">>

\* errors.New(...) of Validate
ErrCredential == Err(<<"Must provide both api-key and api-email">>)
ErrZone == Err(<<"zone-name OR zone-id must be set">>)
ErrSample == Err(<<"sample must be between 0.1 and 0.9">>)
ErrStorage == Err(<<"Both google-storage-bucket and google-project-id must be provided to upload to Google Storage">>)

\* failures the libraries can report
ErrLookup == Err(<<"Zone could not be found">>)
ErrLookupAPI == Err(<<"error from makeRequest: HTTP status 403">>)
LookupErrs == {ErrLookup, ErrLookupAPI}
ErrGcsClient == Err(<<"dialing: no credentials">>)
ErrNewClient == Err(<<"logshare: client construction failed">>)
ErrRemote == Err(<<"HTTP status 500">>)

\* googleapi errors of Bucket.Create, formatted "googleapi: Error <code>: <message>"
\* 409: the bucket already exists
ErrConflict == Err(<<"E", "4", "0", "9", ":", "o", "w", "n", "e", "d">>)
\* 403 on a bucket whose name holds the digits 409
ErrForbidden409 == Err(<<"E", "4", "0", "3", ":", "b", "4", "0", "9">>)
\* 403 / 500 with no 409 anywhere in the text
ErrForbidden == Err(<<"E", "4", "0", "3", ":", "b">>)
ErrBackend == Err(<<"E", "5", "0", "0">>)

\* what Bucket.Create can return; NilErr: the bucket was created
CreateResults == {NilErr, ErrConflict, ErrForbidden409, ErrForbidden, ErrBackend}

\* the one result that is the "already exists" condition (HTTP 409 Conflict)
IsAlreadyExists(e) == e = ErrConflict

----------------------------------------------------------------------------
(* Inputs *)

\* float64 values: a number, in hundredths, or NaN
Flt(h) == [nan |-> FALSE, v |-> h]
NaN == [nan |-> TRUE, v |-> 0]

\* the float64 comparisons !=, < and >
FNe(a, b) == a.nan \/ b.nan \/ a.v # b.v
FLt(a, b) == ~a.nan /\ ~b.nan /\ a.v < b.v
FGt(a, b) == ~a.nan /\ ~b.nan /\ a.v > b.v

\* values of --sample
Samples == {Flt(-10), Flt(0), Flt(5), Flt(10), Flt(50), Flt(90), Flt(95), NaN}

Flags ==
    [apiKey : {"", "k"}, apiEmail : {"", "e"},
     zoneID : {"", "z1"}, zoneName : {"", "example.com"},
     startTime : {1000}, endTime : {2000}, count : {1, 5},
     sample : Samples, listFields : BOOLEAN,
     bucket : {"", "b"}, project : {"", "p"},
     loopWait : {1, 60}]

\* identifiers the zone lookup can return
LookupIDs == {"z9", "z7"}

Clock == {1700000000}

\* the config struct right after conf := &config{}
ZeroConf ==
    [apiKey |-> "", apiEmail |-> "", zoneID |-> "", zoneName |-> "",
     startTime |-> 0, endTime |-> 0, count |-> 0, sample |-> Flt(0),
     listFields |-> FALSE, googleStorageBucket |-> "", googleProjectID |-> ""]

NoClient == [built |-> FALSE, dest |-> 0]

\* nothing has been asked of the zone lookup or of the storage service yet
NoResp ==
    [lookupCalled |-> FALSE, lookupErr |-> NilErr, lookupID |-> "",
     gcsCalled |-> FALSE, gcsErr |-> NilErr,
     createCalled |-> FALSE, createErr |-> NilErr]

NoWork ==
    [nFields |-> 0, nTime |-> 0, zone |-> "", start |-> 0, end |-> 0,
     count |-> 0, loggedMeta |-> FALSE, err |-> NilErr]

ZeroCalls ==
    [validate |-> 0, help |-> 0, zoneLookup |-> 0, gcsNewClient |-> 0,
     bucketCreate |-> 0, newWriter |-> 0, logshareNew |-> 0,
     fetchFields |-> 0, fetchTime |-> 0, sleep |-> 0]

Bump(c, f) == [c EXCEPT ![f] = Min(c[f] + 1, MaxCalls)]

Ev(e, n) == [ev |-> e, n |-> n]

\* append effects to the trace, keeping the latest MaxTrace of them
Log(t, es) ==
    LET all == t \o es
    IN  IF Len(all) > MaxTrace
        THEN SubSeq(all, Len(all) - MaxTrace + 1, Len(all))
        ELSE all

----------------------------------------------------------------------------
(* Pure functions *)

Digits == <<"0", "1", "2", "3", "4", "5", "6", "7", "8", "9">>

RECURSIVE ItoaNat(_)
ItoaNat(n) ==
    IF n < 10 THEN <<Digits[n + 1]>>
    ELSE ItoaNat(n \div 10) \o <<Digits[(n % 10) + 1]>>

\* strconv.Itoa
Itoa(n) == IF n < 0 THEN <<"-">> \o ItoaNat(-n) ELSE ItoaNat(n)

\* an object name that leaves the zone ID out
FileNameNoZone(zoneID, t) == <<"cloudflare_els_", "_">> \o Itoa(t) \o <<".json">>

\* the object name derived by GetClientFromConfigAndContext
FileName(zoneID, t) == <<"cloudflare_els_", zoneID, "_">> \o Itoa(t) \o <<".json">>

\* Validate without the storage-pairing check
ValidateNoPairing(c) ==
    IF c.apiKey = "" \/ c.apiEmail = "" THEN ErrCredential
    ELSE IF c.zoneID = "" /\ c.zoneName = "" THEN ErrZone
    ELSE IF FNe(c.sample, Flt(0)) /\ (FLt(c.sample, Flt(10)) \/ FGt(c.sample, Flt(90)))
    THEN ErrSample
    ELSE NilErr

\* Validate with the pairing check written one-sidedly: a project without a
\* bucket is caught, a bucket without a project is not
ValidateOneSidedPairing(c) ==
    IF c.apiKey = "" \/ c.apiEmail = "" THEN ErrCredential
    ELSE IF c.zoneID = "" /\ c.zoneName = "" THEN ErrZone
    ELSE IF FNe(c.sample, Flt(0)) /\ (FLt(c.sample, Flt(10)) \/ FGt(c.sample, Flt(90)))
    THEN ErrSample
    ELSE IF c.googleStorageBucket = "" /\ c.googleProjectID # "" THEN ErrStorage
    ELSE NilErr

\* config.Validate
Validate(c) ==
    IF c.apiKey = "" \/ c.apiEmail = "" THEN ErrCredential
    ELSE IF c.zoneID = "" /\ c.zoneName = "" THEN ErrZone
    ELSE IF FNe(c.sample, Flt(0)) /\ (FLt(c.sample, Flt(10)) \/ FGt(c.sample, Flt(90)))
    THEN ErrSample
    ELSE IF (c.googleStorageBucket = "") # (c.googleProjectID = "") THEN ErrStorage
    ELSE NilErr

\* parseFlags reading the bucket from the google-project-id flag
FlagsToConfBucketFromProject(f) ==
    [apiKey |-> f.apiKey, apiEmail |-> f.apiEmail,
     zoneID |-> f.zoneID, zoneName |-> f.zoneName,
     startTime |-> f.startTime, endTime |-> f.endTime, count |-> f.count,
     sample |-> f.sample, listFields |-> f.listFields,
     googleStorageBucket |-> f.project, googleProjectID |-> f.project]

\* the assignments of parseFlags
FlagsToConf(f) ==
    [apiKey |-> f.apiKey, apiEmail |-> f.apiEmail,
     zoneID |-> f.zoneID, zoneName |-> f.zoneName,
     startTime |-> f.startTime, endTime |-> f.endTime, count |-> f.count,
     sample |-> f.sample, listFields |-> f.listFields,
     googleStorageBucket |-> f.bucket, googleProjectID |-> f.project]

\* setupGoogleStr with every creation failure fatal, the conflict included
setupGoogleStrNo409(gcsErr, createErr) ==
    IF ~gcsErr.nil
    THEN [create |-> FALSE, panic |-> FALSE, writer |-> FALSE, err |-> gcsErr]
    ELSE IF createErr.nil
    THEN [create |-> TRUE, panic |-> TRUE, writer |-> FALSE, err |-> NilErr]
    ELSE [create |-> TRUE, panic |-> FALSE, writer |-> FALSE, err |-> createErr]

\* setupGoogleStr, given what gcs.NewClient and Bucket.Create return.
\* create: whether Bucket.Create was reached; panic: error.Error() was called
\* on the nil error; writer: obj.NewWriter was reached and its result returned.
setupGoogleStr(gcsErr, createErr) ==
    IF ~gcsErr.nil
    THEN [create |-> FALSE, panic |-> FALSE, writer |-> FALSE, err |-> gcsErr]
    ELSE IF createErr.nil
    THEN [create |-> TRUE, panic |-> TRUE, writer |-> FALSE, err |-> NilErr]
    ELSE IF Contains(createErr.text, Lit409)
    THEN [create |-> TRUE, panic |-> FALSE, writer |-> TRUE, err |-> NilErr]
    ELSE [create |-> TRUE, panic |-> FALSE, writer |-> FALSE, err |-> createErr]

\* ClientWork falling through from field enumeration into the time-range fetch
ClientWorkBoth(c, ok) ==
    [nFields |-> IF c.listFields THEN 1 ELSE 0, nTime |-> 1, zone |-> c.zoneID,
     start |-> c.startTime, end |-> c.endTime, count |-> c.count,
     loggedMeta |-> ok,
     err |-> IF ok THEN NilErr ELSE Wrap(ErrRemote, "failed to fetch via timestamp")]

\* ClientWork, given whether the remote operation it invokes succeeds
ClientWorkResult(c, ok) ==
    IF c.listFields
    THEN [nFields |-> 1, nTime |-> 0, zone |-> c.zoneID,
          start |-> 0, end |-> 0, count |-> 0, loggedMeta |-> ok,
          err |-> IF ok THEN NilErr ELSE Wrap(ErrRemote, "failed to fetch field names")]
    ELSE [nFields |-> 0, nTime |-> 1, zone |-> c.zoneID,
          start |-> c.startTime, end |-> c.endTime, count |-> c.count,
          loggedMeta |-> ok,
          err |-> IF ok THEN NilErr ELSE Wrap(ErrRemote, "failed to fetch via timestamp")]

\* the deferred func left out: nothing is closed
CloseAllNone(ws, cs) == ws

\* the deferred func of run / runLoop: Close every closer
CloseAll(ws, cs) ==
    [i \in 1..Len(ws) |->
        IF \E j \in 1..Len(cs) : cs[j] = i
        THEN [ws[i] EXCEPT !.closed =
                 Min(@ + Cardinality({j \in 1..Len(cs) : cs[j] = i}), MaxCalls)]
        ELSE ws[i]]

----------------------------------------------------------------------------
(* The process *)

Init ==
    /\ mode \in {"run", "loop"}
    /\ flags \in Flags
    /\ now \in Clock
    /\ conf = ZeroConf
    /\ validateErr = NilErr
    /\ pc = "start"
    /\ client = NoClient
    /\ closers = <<>>
    /\ writers = <<>>
    /\ outputWriter = 0
    /\ err = NilErr
    /\ resp = NoResp
    /\ calls = ZeroCalls
    /\ lastWork = NoWork
    /\ trace = <<>>
    /\ exitCode = NotExited

\* GetClientFromConfigAndContext, lines 110-114: parseFlags and Validate
ParseFlags ==
    /\ pc = "start"
    /\ LET c == FlagsToConf(flags)
           e == Validate(c)
       IN  /\ conf' = c
           /\ err' = e
           /\ validateErr' = e
           /\ calls' = IF e.nil THEN Bump(calls, "validate")
                       ELSE Bump(Bump(calls, "validate"), "help")
           /\ pc' = IF e.nil THEN "zone" ELSE "failed"
    /\ UNCHANGED <<mode, flags, now, client, closers, writers, outputWriter, resp,
                   lastWork, trace, exitCode>>

\* the zone lookup made whether or not a zone ID was supplied
ResolveZoneAlways ==
    /\ pc = "zone"
    /\ \/ /\ \E id \in LookupIDs :
                /\ resp' = [resp EXCEPT !.lookupCalled = TRUE, !.lookupID = id]
                /\ conf' = [conf EXCEPT !.zoneID = id]
          /\ calls' = Bump(calls, "zoneLookup")
          /\ pc' = "sink"
          /\ UNCHANGED err
       \/ /\ \E e \in LookupErrs :
                /\ resp' = [resp EXCEPT !.lookupCalled = TRUE, !.lookupErr = e]
                /\ err' = Wrap(e, "could not find a zone for the given ID")
          /\ calls' = Bump(Bump(calls, "zoneLookup"), "help")
          /\ pc' = "failed"
          /\ UNCHANGED conf
    /\ UNCHANGED <<mode, flags, now, validateErr, client, closers, writers, outputWriter,
                   lastWork, trace, exitCode>>

\* GetClientFromConfigAndContext, lines 116-126: populate the zone ID.
\* cloudflare.New fails only on empty credentials, which Validate has excluded.
ResolveZone ==
    /\ pc = "zone"
    /\ \/ /\ conf.zoneID # ""
          /\ pc' = "sink"
          /\ UNCHANGED <<conf, err, calls, resp>>
       \/ /\ conf.zoneID = ""
          /\ \E id \in LookupIDs :
                /\ resp' = [resp EXCEPT !.lookupCalled = TRUE, !.lookupID = id]
                /\ conf' = [conf EXCEPT !.zoneID = id]
          /\ calls' = Bump(calls, "zoneLookup")
          /\ pc' = "sink"
          /\ UNCHANGED err
       \/ /\ conf.zoneID = ""
          /\ \E e \in LookupErrs :
                /\ resp' = [resp EXCEPT !.lookupCalled = TRUE, !.lookupErr = e]
                /\ err' = Wrap(e, "could not find a zone for the given ID")
          /\ calls' = Bump(Bump(calls, "zoneLookup"), "help")
          /\ pc' = "failed"
          /\ UNCHANGED conf
    /\ UNCHANGED <<mode, flags, now, validateErr, client, closers, writers, outputWriter,
                   lastWork, trace, exitCode>>

\* GetClientFromConfigAndContext, lines 128-138: the output writer
SetupSink ==
    /\ pc = "sink"
    /\ \/ /\ conf.googleStorageBucket = ""
          /\ pc' = "client"
          /\ UNCHANGED <<closers, writers, outputWriter, err, resp, calls, exitCode>>
       \/ /\ conf.googleStorageBucket # ""
          /\ \E gcsErr \in {NilErr, ErrGcsClient}, createErr \in CreateResults :
                LET r == setupGoogleStr(gcsErr, createErr)
                    c1 == Bump(calls, "gcsNewClient")
                    c2 == IF r.create THEN Bump(c1, "bucketCreate") ELSE c1
                    c3 == IF r.writer THEN Bump(c2, "newWriter") ELSE c2
                IN  /\ calls' = c3
                    /\ resp' = IF r.create
                               THEN [resp EXCEPT !.gcsCalled = TRUE, !.gcsErr = gcsErr,
                                                 !.createCalled = TRUE,
                                                 !.createErr = createErr]
                               ELSE [resp EXCEPT !.gcsCalled = TRUE, !.gcsErr = gcsErr]
                    /\ IF r.panic
                       THEN /\ pc' = "panicked"
                            /\ exitCode' = 2
                            /\ UNCHANGED <<closers, writers, outputWriter, err>>
                       ELSE IF r.err.nil
                       THEN /\ writers' = Append(writers,
                                [name |-> FileName(conf.zoneID, now),
                                 closed |-> 0, usedClosed |-> FALSE])
                            /\ closers' = Append(closers, Len(writers) + 1)
                            /\ outputWriter' = Len(writers) + 1
                            /\ pc' = "client"
                            /\ UNCHANGED <<err, exitCode>>
                       ELSE /\ err' = r.err
                            /\ pc' = "failed"
                            /\ UNCHANGED <<closers, writers, outputWriter, exitCode>>
    /\ UNCHANGED <<mode, flags, now, validateErr, conf, client, lastWork, trace>>

\* logshare.New whose failure path returns no closers
BuildClientDropClosers ==
    /\ pc = "client"
    /\ calls' = Bump(calls, "logshareNew")
    /\ \/ /\ client' = [built |-> TRUE, dest |-> outputWriter]
          /\ pc' = "ready"
          /\ UNCHANGED <<err, closers>>
       \/ /\ err' = ErrNewClient
          /\ closers' = <<>>
          /\ pc' = "failed"
          /\ UNCHANGED client
    /\ UNCHANGED <<mode, flags, now, validateErr, conf, writers, outputWriter, resp,
                   lastWork, trace, exitCode>>

\* GetClientFromConfigAndContext, lines 140-153: logshare.New
BuildClient ==
    /\ pc = "client"
    /\ calls' = Bump(calls, "logshareNew")
    /\ \/ /\ client' = [built |-> TRUE, dest |-> outputWriter]
          /\ pc' = "ready"
          /\ UNCHANGED err
       \/ /\ err' = ErrNewClient
          /\ pc' = "failed"
          /\ UNCHANGED client
    /\ UNCHANGED <<mode, flags, now, validateErr, conf, closers, writers, outputWriter, resp,
                   lastWork, trace, exitCode>>

\* one call of ClientWork(conf, client): the fields every caller updates
DoClientWork(ok) ==
    LET w == ClientWorkResult(conf, ok)
        op == IF w.nFields > 0 THEN "FetchFieldNames" ELSE "GetFromTimestamp"
        c1 == IF w.nFields > 0 THEN Bump(calls, "fetchFields") ELSE calls
        c2 == IF w.nTime > 0 THEN Bump(c1, "fetchTime") ELSE c1
    IN  /\ lastWork' = w
        /\ calls' = c2
        /\ trace' = Log(trace, <<Ev(op, 0)>> \o
                        (IF w.loggedMeta THEN <<Ev("logMeta", 0)>> ELSE <<>>))
        /\ writers' = [i \in 1..Len(writers) |->
                         IF i = client.dest /\ writers[i].closed > 0
                         THEN [writers[i] EXCEPT !.usedClosed = TRUE]
                         ELSE writers[i]]
        /\ err' = w.err

\* a single-shot fetch that is attempted again after a failure
RunClientWorkRetry ==
    /\ mode = "run"
    /\ pc = "ready"
    /\ \E ok \in BOOLEAN :
          /\ DoClientWork(ok)
          /\ pc' = IF ok \/ calls.fetchFields + calls.fetchTime > 0
                   THEN "worked" ELSE "ready"
    /\ UNCHANGED <<mode, flags, now, validateErr, conf, client, closers, outputWriter, resp, exitCode>>

\* run, line 80: the single fetch
RunClientWork ==
    /\ mode = "run"
    /\ pc = "ready"
    /\ \E ok \in BOOLEAN : DoClientWork(ok)
    /\ pc' = "worked"
    /\ UNCHANGED <<mode, flags, now, validateErr, conf, client, closers, outputWriter, resp, exitCode>>

\* run / runLoop: return err, which runs the deferred closes
Return ==
    /\ pc \in {"failed", "worked"}
    /\ writers' = CloseAll(writers, closers)
    /\ trace' = Log(trace, [j \in 1..Len(closers) |-> Ev("close", closers[j])])
    /\ pc' = "returned"
    /\ UNCHANGED <<mode, flags, now, validateErr, conf, client, closers, outputWriter, err, resp,
                   calls, lastWork, exitCode>>

\* main, lines 43-45: log the error app.Run returned, then fall off main
MainExit ==
    /\ pc = "returned"
    /\ trace' = IF err.nil THEN trace ELSE Log(trace, <<Ev("logErr", 0)>>)
    /\ exitCode' = 0
    /\ pc' = "exited"
    /\ UNCHANGED <<mode, flags, now, validateErr, conf, client, closers, writers, outputWriter,
                   err, resp, calls, lastWork>>

\* runLoop, line 99: err = ClientWork(conf, client)
LoopClientWork ==
    /\ mode = "loop"
    /\ pc = "ready"
    /\ \E ok \in BOOLEAN : DoClientWork(ok)
    /\ pc' = "loopLog"
    /\ UNCHANGED <<mode, flags, now, validateErr, conf, client, closers, outputWriter, resp, exitCode>>

\* a loop that gives up on the first failed iteration
LoopLogAbort ==
    /\ pc = "loopLog"
    /\ trace' = IF err.nil THEN trace ELSE Log(trace, <<Ev("logErr", 0)>>)
    /\ pc' = IF err.nil THEN "loopSleep" ELSE "failed"
    /\ UNCHANGED <<mode, flags, now, validateErr, conf, client, closers, writers, outputWriter,
                   err, resp, calls, lastWork, exitCode>>

\* runLoop, lines 100-102: log a failed iteration
LoopLog ==
    /\ pc = "loopLog"
    /\ trace' = IF err.nil THEN trace ELSE Log(trace, <<Ev("logErr", 0)>>)
    /\ pc' = "loopSleep"
    /\ UNCHANGED <<mode, flags, now, validateErr, conf, client, closers, writers, outputWriter,
                   err, resp, calls, lastWork, exitCode>>

\* a loop that runs the setup again after every sleep
LoopSleepResetup ==
    /\ pc = "loopSleep"
    /\ trace' = Log(trace, <<Ev("sleep", flags.loopWait)>>)
    /\ calls' = Bump(calls, "sleep")
    /\ pc' = "start"
    /\ UNCHANGED <<mode, flags, now, validateErr, conf, client, closers, writers, outputWriter,
                   err, resp, lastWork, exitCode>>

\* a loop that sleeps only after a failed iteration
LoopSleepOnErrorOnly ==
    /\ pc = "loopSleep"
    /\ trace' = IF err.nil THEN trace ELSE Log(trace, <<Ev("sleep", flags.loopWait)>>)
    /\ calls' = IF err.nil THEN calls ELSE Bump(calls, "sleep")
    /\ pc' = "ready"
    /\ UNCHANGED <<mode, flags, now, validateErr, conf, client, closers, writers, outputWriter,
                   err, resp, lastWork, exitCode>>

\* runLoop, lines 103-104: sleep loopTime seconds, then iterate
LoopSleep ==
    /\ pc = "loopSleep"
    /\ trace' = Log(trace, <<Ev("sleep", flags.loopWait)>>)
    /\ calls' = Bump(calls, "sleep")
    /\ pc' = "ready"
    /\ UNCHANGED <<mode, flags, now, validateErr, conf, client, closers, writers, outputWriter,
                   err, resp, lastWork, exitCode>>

\* the loop-mode process is terminated from outside (signal, supervisor kill):
\* the process stops where it is and no deferred function runs
Kill ==
    /\ mode = "loop"
    /\ pc \in {"ready", "loopLog", "loopSleep"}
    /\ pc' = "killed"
    /\ exitCode' = 137
    /\ UNCHANGED <<mode, flags, now, validateErr, conf, client, closers, writers, outputWriter,
                   err, resp, calls, lastWork, trace>>

\* the steps of the program itself
Step ==
    \/ ParseFlags
    \/ ResolveZone
    \/ SetupSink
    \/ BuildClient
    \/ RunClientWork
    \/ Return
    \/ MainExit
    \/ LoopClientWork
    \/ LoopLog
    \/ LoopSleep

Next == Step \/ Kill

Spec == Init /\ [][Next]_vars

\* the program left to run: every step that can be taken eventually is
FairSpec == Init /\ [][Step]_vars /\ WF_vars(Step)

----------------------------------------------------------------------------
(* Claims *)

\* a command line that violates one of the four invariants: empty api key or
\* email; zone ID and zone name both empty; a sample that is non-zero and below
\* 0.1 or above 0.9; exactly one of bucket and project set.  (A NaN sample is
\* below nothing and above nothing: it is not among these.)
ViolatesInvariants(f) ==
    \/ f.apiKey = "" \/ f.apiEmail = ""
    \/ f.zoneID = "" /\ f.zoneName = ""
    \/ ~f.sample.nan /\ f.sample.v # 0 /\ (f.sample.v < 10 \/ f.sample.v > 90)
    \/ (f.bucket = "" /\ f.project # "") \/ (f.bucket # "" /\ f.project = "")

ValidationErrors == {ErrCredential, ErrZone, ErrSample, ErrStorage}

NoFetch == calls.fetchFields = 0 /\ calls.fetchTime = 0

NoStorageCall ==
    calls.gcsNewClient = 0 /\ calls.bucketCreate = 0 /\ calls.newWriter = 0

Fetched == lastWork.nFields + lastWork.nTime > 0

C2_CreatedBucketYieldsSink ==
    (resp.createCalled /\ resp.createErr.nil) =>
        /\ pc # "panicked"
        /\ Len(writers) = 1
        /\ outputWriter = 1
        /\ calls.logshareNew > 0 \/ pc = "client"

\* C3: when Bucket.Create fails with the "already exists" condition the sink
\* factory returns a write-stream and a nil error, the stream is registered as a
\* closer, and the stream is the destination handed to the client.
C3_AlreadyExistsIsSuccess ==
    (resp.createCalled /\ IsAlreadyExists(resp.createErr)) =>
        /\ pc # "panicked"
        /\ Len(writers) = 1
        /\ writers[1].name = FileName(conf.zoneID, now)
        /\ closers = <<1>>
        /\ outputWriter = 1
        /\ pc = "client" => err.nil
        /\ pc = "failed" => err = ErrNewClient
        /\ client.built => client.dest = 1
        /\ (pc \in {"ready", "worked", "loopLog", "loopSleep"}) => client.built

C3_Witness ==
    /\ resp.createCalled /\ IsAlreadyExists(resp.createErr)
    /\ client.built /\ client.dest = 1
    /\ closers = <<1>>
    /\ pc = "ready"

\* C4: every sink-construction failure other than "already exists" (a failed
\* gcs.NewClient, or a Bucket.Create failure of any other kind, whatever its
\* text) is returned with no write-stream, and the invocation ends without
\* building a log client and without any fetch.
C4_OtherSinkFailureIsFatal ==
    LET clientFailed == resp.gcsCalled /\ ~resp.gcsErr.nil
        createFailed == /\ resp.createCalled
                        /\ ~resp.createErr.nil
                        /\ ~IsAlreadyExists(resp.createErr)
    IN  (clientFailed \/ createFailed) =>
            /\ writers = <<>>
            /\ closers = <<>>
            /\ err = (IF clientFailed THEN resp.gcsErr ELSE resp.createErr)
            /\ calls.logshareNew = 0
            /\ ~client.built
            /\ NoFetch
            /\ pc \in {"failed", "returned", "exited"}

\* C5: in single-shot mode, on every exit path, every write-stream opened during
\* setup has been closed exactly once by the time run returns, none is closed
\* before that, and so no fetch ever writes to a closed sink.
C5_SinkClosedOnceAtReturn ==
    mode = "run" =>
        \A i \in 1..Len(writers) :
            /\ pc \in {"returned", "exited"} => writers[i].closed = 1
            /\ pc \notin {"returned", "exited"} => writers[i].closed = 0
            /\ ~writers[i].usedClosed

C5_Witness ==
    /\ mode = "run"
    /\ pc = "returned"
    /\ Len(writers) = 1 /\ writers[1].closed = 1
    /\ Fetched /\ ~err.nil

Last(t) == t[Len(t)]

InLoop == pc \in {"ready", "loopLog", "loopSleep"}

\* C6: in loop mode, once setup has succeeded, a failed fetch never ends the
\* loop: the failure is logged, the loop sleeps, and a further fetch follows;
\* runLoop never returns, and under fairness fetches keep occurring.
C6_FailedFetchNeverEndsLoop ==
    /\ [][(mode = "loop" /\ pc = "loopLog" /\ ~err.nil) =>
              (pc' = "loopSleep" /\ Last(trace') = Ev("logErr", 0))]_vars
    /\ [][(mode = "loop" /\ pc = "loopSleep") =>
              (pc' = "ready" /\ Last(trace') = Ev("sleep", flags.loopWait))]_vars
    /\ []((mode = "loop" /\ client.built) => InLoop)
    /\ (mode = "loop" /\ pc = "ready") ~> (pc = "loopLog")
    /\ (mode = "loop" /\ pc = "loopLog") ~> (pc = "loopSleep")
    /\ (mode = "loop" /\ pc = "loopSleep") ~> (pc = "loopLog")

\* iteration 1 failed, iteration 2 succeeded
C6_Witness ==
    /\ mode = "loop"
    /\ pc = "loopLog"
    /\ trace = <<Ev("GetFromTimestamp", 0), Ev("logErr", 0), Ev("sleep", 60),
                 Ev("GetFromTimestamp", 0), Ev("logMeta", 0)>>

TotalFetches == calls.fetchFields + calls.fetchTime

\* C7: each ClientWork call invokes exactly one remote operation, once: field
\* enumeration with the resolved zone ID when listFields is set, otherwise the
\* time-range fetch with (zone ID, start time, end time, count) of the
\* configuration; never both; the metadata is logged exactly when the operation
\* succeeded, otherwise the wrapped error is returned; nothing is retried.
C7_OneOperationPerCall ==
    /\ lastWork.nFields + lastWork.nTime <= 1
    /\ Fetched =>
        /\ conf.listFields =>
              /\ lastWork.nFields = 1 /\ lastWork.nTime = 0
              /\ lastWork.zone = conf.zoneID
              /\ ~lastWork.err.nil => lastWork.err.text[1] = "failed to fetch field names"
        /\ ~conf.listFields =>
              /\ lastWork.nFields = 0 /\ lastWork.nTime = 1
              /\ <<lastWork.zone, lastWork.start, lastWork.end, lastWork.count>>
                   = <<conf.zoneID, conf.startTime, conf.endTime, conf.count>>
              /\ ~lastWork.err.nil => lastWork.err.text[1] = "failed to fetch via timestamp"
        /\ lastWork.loggedMeta <=> lastWork.err.nil
        /\ ~lastWork.err.nil =>
              SubSeq(lastWork.err.text, 3, Len(lastWork.err.text)) = ErrRemote.text
    /\ flags.listFields => calls.fetchTime = 0
    /\ ~flags.listFields => calls.fetchFields = 0
    /\ mode = "run" => TotalFetches = (IF Fetched THEN 1 ELSE 0)
    /\ (mode = "loop" /\ pc # "killed" /\ TotalFetches < MaxCalls) =>
          TotalFetches = calls.sleep + (IF pc \in {"loopLog", "loopSleep"} THEN 1 ELSE 0)

C7_Witness ==
    /\ mode = "run" /\ pc = "exited"
    /\ ~conf.listFields
    /\ lastWork.nTime = 1 /\ calls.fetchTime = 1 /\ calls.fetchFields = 0
    /\ ~lastWork.err.nil /\ ~lastWork.loggedMeta

\* C8: if the configured zone ID is non-empty (a zone name may be given too),
\* the zone lookup is never invoked, and the zone ID used for the object name
\* and for every fetch is the configured one, unchanged.
C8_ZoneIDSkipsLookup ==
    flags.zoneID # "" =>
        /\ calls.zoneLookup = 0
        /\ ~resp.lookupCalled
        /\ pc # "start" => conf.zoneID = flags.zoneID
        /\ \A i \in 1..Len(writers) : writers[i].name[2] = flags.zoneID
        /\ Fetched => lastWork.zone = flags.zoneID

C8_Witness ==
    /\ flags.zoneID # "" /\ flags.zoneName # ""
    /\ Len(writers) = 1
    /\ Fetched
    /\ pc = "exited"

\* C9: if the configured zone ID is empty and the lookup fails, setup returns an
\* error wrapping the lookup failure with zone-resolution context, the zone ID
\* of the configuration stays empty, and no sink is created, no log client is
\* built and no fetch is made (the loop is never entered).
C9_LookupFailureIsFatal ==
    (resp.lookupCalled /\ ~resp.lookupErr.nil) =>
        /\ flags.zoneID = ""
        /\ err.text = <<"could not find a zone for the given ID", ": ">>
                         \o resp.lookupErr.text
        /\ conf.zoneID = ""
        /\ NoStorageCall
        /\ writers = <<>>
        /\ calls.logshareNew = 0
        /\ ~client.built
        /\ NoFetch
        /\ calls.sleep = 0
        /\ pc \in {"failed", "returned", "exited"}

C9_Witness ==
    /\ mode = "loop"
    /\ resp.lookupCalled /\ resp.lookupErr = ErrLookupAPI
    /\ flags.bucket # ""
    /\ pc = "returned"

\* C10: if the configured zone ID is empty and the lookup returns id, the
\* resolved zone ID is id, and id is the zone in the derived object name and
\* the zone argument of every later fetch, single-shot and in every iteration.
C10_LookupResultIsUsed ==
    (resp.lookupCalled /\ resp.lookupErr.nil) =>
        /\ flags.zoneID = ""
        /\ resp.lookupID \in LookupIDs
        /\ conf.zoneID = resp.lookupID
        /\ \A i \in 1..Len(writers) :
              /\ writers[i].name[2] = resp.lookupID
              /\ writers[i].name =
                    <<"cloudflare_els_", resp.lookupID, "_">> \o Itoa(now) \o <<".json">>
        /\ Fetched => lastWork.zone = resp.lookupID

C10_Witness ==
    /\ mode = "loop"
    /\ resp.lookupCalled /\ resp.lookupID = "z7"
    /\ Len(writers) = 1
    /\ calls.fetchTime >= 2
    /\ lastWork.zone = "z7"

----------------------------------------------------------------------------
(* Claims about Validate *)

Validated == pc # "start"

\* the four invariants of the configuration
CredentialOK(f) == f.apiKey # "" /\ f.apiEmail # ""
ZoneOK(f) == f.zoneID # "" \/ f.zoneName # ""
SampleOK(f) ==
    \/ f.sample = Flt(0)
    \/ ~f.sample.nan /\ 10 <= f.sample.v /\ f.sample.v <= 90
PairingOK(f) == (f.bucket = "" /\ f.project = "") \/ (f.bucket # "" /\ f.project # "")

\* the error of the first violated invariant, in the order credential, zone,
\* sample range, storage pairing
FirstViolated(f) ==
    IF ~CredentialOK(f) THEN ErrCredential
    ELSE IF ~ZoneOK(f) THEN ErrZone
    ELSE IF ~SampleOK(f) THEN ErrSample
    ELSE IF ~PairingOK(f) THEN ErrStorage
    ELSE NilErr

\* the configuration is what parseFlags assigned, but for the zone ID
ConfAsParsed ==
    /\ conf.apiKey = flags.apiKey /\ conf.apiEmail = flags.apiEmail
    /\ conf.zoneName = flags.zoneName
    /\ conf.startTime = flags.startTime /\ conf.endTime = flags.endTime
    /\ conf.count = flags.count /\ conf.sample = flags.sample
    /\ conf.listFields = flags.listFields
    /\ conf.googleStorageBucket = flags.bucket
    /\ conf.googleProjectID = flags.project

\* C11: Validate checks the four invariants in the order credential, zone,
\* sample range, storage pairing and returns the error of the first violated
\* one; it returns nil exactly when all four hold; it does not modify the
\* configuration.
C11_FirstViolatedInvariant ==
    Validated =>
        /\ validateErr = FirstViolated(flags)
        /\ validateErr.nil <=>
              (CredentialOK(flags) /\ ZoneOK(flags) /\ SampleOK(flags) /\ PairingOK(flags))
        /\ ConfAsParsed
        /\ (pc = "zone" \/ ~validateErr.nil) => conf.zoneID = flags.zoneID

\* C12: whenever exactly one of bucket name and project identifier is
\* non-empty Validate returns an error; when both are empty or both non-empty
\* the storage-pairing check passes.
C12_ExactlyOneOfBucketProject ==
    Validated =>
        /\ ~PairingOK(flags) => ~validateErr.nil
        /\ (~PairingOK(flags) /\ CredentialOK(flags) /\ ZoneOK(flags) /\ SampleOK(flags))
              => validateErr = ErrStorage
        /\ PairingOK(flags) => validateErr # ErrStorage

C12_Witness ==
    /\ Validated
    /\ flags.bucket # "" /\ flags.project = ""
    /\ validateErr = ErrStorage
    /\ pc = "failed"

\* C13: for a configuration whose other invariants hold, Validate succeeds
\* exactly when the sampling rate is 0 or lies in [0.1, 0.9].
C13_SampleRange ==
    (Validated /\ CredentialOK(flags) /\ ZoneOK(flags) /\ PairingOK(flags)) =>
        (validateErr.nil <=> SampleOK(flags))

----------------------------------------------------------------------------
(* Claims about the two modes *)

\* the process has ended: main returned, or the runtime stopped it on a panic
Ended == pc \in {"exited", "panicked"}

\* C14: single-shot mode always ends, having dispatched exactly one fetch when
\* setup succeeded and none when it failed; a failed fetch is not retried, its
\* error is what run returns, and main logs it.
C14_SingleShotOneFetch ==
    /\ [](mode = "run" =>
            /\ TotalFetches <= 1
            /\ calls.sleep = 0
            /\ TotalFetches =
                 (IF client.built /\ pc \in {"worked", "returned", "exited"} THEN 1 ELSE 0)
            /\ (Fetched /\ pc \in {"worked", "returned", "exited"}) => err = lastWork.err
            /\ (pc = "exited" /\ ~err.nil) => Last(trace) = Ev("logErr", 0))
    /\ (mode = "run") ~> (mode = "run" /\ Ended)

C14_Witness ==
    /\ mode = "run" /\ pc = "exited"
    /\ calls.fetchFields = 1 /\ calls.fetchTime = 0
    /\ ~err.nil /\ err = lastWork.err
    /\ Last(trace) = Ev("logErr", 0)

\* C15: in single-shot mode the process finishes with a nonzero exit code
\* whenever a stage failed, and with exit code zero only when the fetch succeeded.
C15_ExitCodeReflectsFailure ==
    (mode = "run" /\ exitCode # NotExited) =>
        (exitCode = 0 <=> (Fetched /\ lastWork.err.nil /\ err.nil))

\* C16: in loop mode, whenever the process stops after the sink was opened,
\* external termination included, the sink has been closed.
C16_SinkClosedWhenLoopStops ==
    (mode = "loop" /\ exitCode # NotExited) =>
        \A i \in 1..Len(writers) : writers[i].closed >= 1

IsFetch(e) == e.ev \in {"FetchFieldNames", "GetFromTimestamp"}

IsOutcome(e) == e.ev \in {"logMeta", "logErr"}

\* C17: within one invocation validation, the zone lookup, the sink creation
\* and the client construction each happen at most once; after flag parsing the
\* configuration changes only by the zone-ID backfill and never after setup; so
\* every iteration fetches with the same arguments through the same client and
\* the same sink, which stays open for as long as the loop runs.
C17_SetupOncePerInvocation ==
    /\ [](/\ calls.validate <= 1 /\ calls.zoneLookup <= 1
          /\ calls.gcsNewClient <= 1 /\ calls.bucketCreate <= 1
          /\ calls.newWriter <= 1 /\ calls.logshareNew <= 1
          /\ Len(writers) <= 1)
    /\ [][pc # "start" => [conf' EXCEPT !.zoneID = conf.zoneID] = conf]_vars
    /\ [][pc \notin {"start", "zone"} => conf' = conf]_vars
    /\ [][client.built =>
             /\ client' = client /\ closers' = closers
             /\ outputWriter' = outputWriter /\ Len(writers') = Len(writers)]_vars
    /\ [][(Fetched /\ lastWork' # lastWork) =>
             /\ lastWork'.nFields = lastWork.nFields /\ lastWork'.nTime = lastWork.nTime
             /\ lastWork'.zone = lastWork.zone
             /\ lastWork'.start = lastWork.start /\ lastWork'.end = lastWork.end
             /\ lastWork'.count = lastWork.count]_vars
    /\ []((mode = "loop" /\ client.built) =>
             \A i \in 1..Len(writers) : writers[i].closed = 0 /\ ~writers[i].usedClosed)

C17_Witness ==
    /\ mode = "loop"
    /\ calls.sleep >= 2 /\ calls.fetchTime >= 3
    /\ resp.lookupCalled /\ calls.zoneLookup = 1 /\ calls.validate = 1
    /\ Len(writers) = 1 /\ writers[1].closed = 0 /\ client.dest = 1
    /\ calls.newWriter = 1 /\ calls.logshareNew = 1

\* C18: in loop mode every iteration is fetch, log the outcome, sleep the
\* configured seconds: one sleep lies between any two consecutive fetches,
\* after a success as after a failure, fetches never overlap, and the first
\* fetch follows setup with no sleep before it.
C18_FetchLogSleepOrder ==
    /\ [][(mode = "loop" /\ pc' # "killed") =>
             /\ pc = "ready" =>
                   /\ pc' = "loopLog"
                   /\ calls'.sleep = calls.sleep
                   /\ \E i \in 1..Len(trace') : IsFetch(trace'[i])
             /\ pc = "loopLog" =>
                   /\ pc' = "loopSleep"
                   /\ calls' = calls
                   /\ IsOutcome(Last(trace'))
                   /\ (Last(trace').ev = "logMeta") <=> err.nil
             /\ pc = "loopSleep" =>
                   /\ pc' = "ready"
                   /\ Last(trace') = Ev("sleep", flags.loopWait)
                   /\ calls'.sleep = Min(calls.sleep + 1, MaxCalls)
                   /\ calls'.fetchFields = calls.fetchFields
                   /\ calls'.fetchTime = calls.fetchTime]_vars
    /\ []((mode = "loop" /\ client.built) =>
             /\ \A i \in 1..(Len(trace) - 1) :
                   /\ IsFetch(trace[i]) => IsOutcome(trace[i + 1])
                   /\ IsOutcome(trace[i]) => trace[i + 1].ev = "sleep"
                   /\ trace[i].ev = "sleep" => IsFetch(trace[i + 1])
             /\ (calls.sleep = 0 /\ trace # <<>>) => IsFetch(trace[1])
             /\ TotalFetches = 0 => calls.sleep = 0)

C18_Witness ==
    /\ mode = "loop" /\ pc = "ready"
    /\ trace = <<Ev("FetchFieldNames", 0), Ev("logMeta", 0), Ev("sleep", 1),
                 Ev("FetchFieldNames", 0), Ev("logErr", 0), Ev("sleep", 1)>>

\* C19: if no bucket name is configured, setup makes no storage call at all,
\* the log client is built with a nil destination, and the list of closers is
\* empty, so nothing is closed at exit.
C19_NoBucketNoStorage ==
    flags.bucket = "" =>
        /\ NoStorageCall
        /\ ~resp.gcsCalled /\ ~resp.createCalled
        /\ writers = <<>>
        /\ closers = <<>>
        /\ outputWriter = 0
        /\ client.built => client.dest = 0
        /\ \A i \in 1..Len(trace) : trace[i].ev # "close"

C19_Witness ==
    /\ flags.bucket = ""
    /\ client.built /\ client.dest = 0
    /\ mode = "run" /\ pc = "exited"

\* the error of the setup stage that failed
SetupError ==
    IF ~validateErr.nil THEN validateErr
    ELSE IF ~resp.lookupErr.nil
    THEN Err(<<"could not find a zone for the given ID", ": ">> \o resp.lookupErr.text)
    ELSE IF ~resp.gcsErr.nil THEN resp.gcsErr
    ELSE IF resp.createCalled /\ writers = <<>> THEN resp.createErr
    ELSE ErrNewClient

\* C20: in loop mode, if setup fails at any stage, runLoop returns that error
\* without entering the loop: no fetch and no sleep is made, and every
\* write-stream opened during setup is closed before runLoop returns.
C20_LoopSetupFailureReturns ==
    (mode = "loop" /\ pc \in {"failed", "returned", "exited"}) =>
        /\ ~err.nil
        /\ err = SetupError
        /\ ~client.built
        /\ NoFetch
        /\ calls.sleep = 0
        /\ \A i \in 1..Len(writers) :
              writers[i].closed = (IF pc = "failed" THEN 0 ELSE 1)

C20_Witness ==
    /\ mode = "loop" /\ pc = "returned"
    /\ err = ErrNewClient
    /\ Len(writers) = 1 /\ writers[1].closed = 1

====
